---- MODULE Spec2Model ----
(***************************************************************************)
(* State-machine model of the news aggregator:                             *)
(*   - the crawler scheduler          (src/crawler/scheduler.py)           *)
(*   - the API middlewares            (src/api/middlewares/*.py)           *)
(*   - the processor polling loop     (src/processor/main.py,              *)
(*                                     src/processor/deduplication/...)    *)
(* Each component has its own next-state relation and specification over   *)
(* the shared variable tuple; the variables of the other components stay   *)
(* at their initial values.                                                *)
(***************************************************************************)
EXTENDS Integers, Sequences, FiniteSets, TLC

(***************************************************************************)
(* Bounds of the model                                                     *)
(***************************************************************************)
MaxTime == 1        \* scheduler clock runs over 0..MaxTime (seconds)
MaxOrphans == 1     \* cancelled tasks that no registry entry refers to
MaxLoops == 1       \* scheduling-loop coroutines alive at the same time
MaxApiTime == 5     \* API clock runs over 0..MaxApiTime (ticks)
MaxArticles == 2    \* rows of the articles table
MaxDay == 1         \* processor clock runs over 0..MaxDay (days)
TicksPerSecond == 2 \* resolution of the API clock

SourceIds == {"s1", "s2"}

(***************************************************************************)
(* Scheduler configuration (CrawlerScheduler.__init__)                     *)
(***************************************************************************)
default_interval == 3600
min_interval == 300
JitterPermille == 100          \* jitter = 0.1
max_concurrent_tasks == 1      \* config "max_concurrent_tasks"
RetryCap == 600                \* min(interval, 600) in the failure branch
DatetimeMin == -1              \* datetime.min

(***************************************************************************)
(* Rate limiter configuration (RateLimiter.__init__)                       *)
(***************************************************************************)
rate_limit == 2                \* requests per window
time_window == 2               \* seconds

(***************************************************************************)
(* Processor configuration (ProcessorApp.__init__, DuplicateDetector)      *)
(***************************************************************************)
batch_size == 2                \* articles per processing batch
max_days_back == 7             \* look-back of the candidate query, days
CandidateLimit == 100          \* limit= of the candidate query

\* Fields of the SourceConfig dataclass.
\* source.config.interval : attribute lookup on the dataclass instance.
ConfigHasInterval ==
    "interval" \in {"name", "url", "type", "category", "update_interval",
                    "active", "id", "rss_settings", "html_settings",
                    "api_settings"}

\* The source configurations the admin surface may submit.
Configs == [id : SourceIds, update_interval : {7200}]

\* get_sources(file_path = None) accepts at most one positional argument.
GetSourcesMaxArgs == 1

(***************************************************************************)
(* Python dict helpers                                                     *)
(***************************************************************************)
EmptyDict == [x \in {} |-> 0]
DictPut(d, k, v) == [x \in (DOMAIN d) \cup {k} |-> IF x = k THEN v ELSE d[x]]
DictDel(d, k) == [x \in (DOMAIN d) \ {k} |-> d[x]]

VARIABLES
    \* ---- crawler scheduler ----
    now,               \* wall clock, seconds
    running,           \* CrawlerScheduler.running
    loops,             \* number of live _scheduling_loop coroutines
    sources,           \* CrawlerScheduler.sources (list of SourceConfig)
    source_instances,  \* id -> config of the fetcher instance
    last_crawl_time,   \* id -> time
    next_crawl_time,   \* id -> time
    running_tasks,     \* id -> task [st, cfg, cancel]
    orphans,           \* unfinished tasks that running_tasks no longer holds:
                       \* <<id, st>> -> how many
    semaphore,         \* free permits of asyncio.Semaphore
    sources_file,      \* config "sources_file" is set
    on_error_callback, \* an error callback is registered
    updating,          \* update_source suspended between remove and add
    event              \* the last observable event: the return of an
                       \* add/remove/update call or the end of a crawl

VARIABLES
    \* ---- API middlewares ----
    api_now,           \* time.time(), in ticks of 1/TicksPerSecond s
    requests,          \* RateLimiter.requests: ip -> list of timestamps
    admitted,          \* every request the limiter ever admitted, per ip
    resp               \* outcome of the last middleware call

schedVars == <<now, running, loops, sources, source_instances, last_crawl_time,
               next_crawl_time, running_tasks, orphans, semaphore, sources_file,
               on_error_callback, updating, event>>

apiVars == <<api_now, requests, admitted, resp>>

VARIABLES
    \* ---- processor ----
    today,             \* datetime.now(), in days
    store,             \* the articles table: store[id] is the row of id
    batch,             \* ids of the batch the processing loop is handling
    stage,             \* per batch position: "pending", "checked", "done"
    verdict,           \* per batch position: result of check_duplicate
    persisted,         \* per batch position: update_article succeeded
    cands,             \* candidates the last duplicate check read: id -> row
    last               \* batch position of the last duplicate check

VARIABLES
    piped,             \* per batch position: the pipeline ran on the article
    indexed,           \* per batch position: index_article succeeded
    index,             \* ids of the documents of the search index
    poll               \* polling cycles since the last crawl ended: "none",
                       \* "running" (one began after it), "done" (it ended)

procVars == <<today, store, batch, stage, verdict, persisted, cands, last,
              piped, indexed, index, poll>>

VARIABLES
    \* ---- stateless operations ----
    call               \* the call in progress: [fn, arg, out]

VARIABLES
    \* ---- processes followed on their own ----
    reproc,            \* the --reprocess-all command: [pc, snap, i]
    direct,            \* a crawl_source call made outside the loop: [st, id]
    goc,               \* taxonomy tables and the get_or_create calls on them
    ploop              \* control flow of the processing loop:
                       \* [pc, len, i, failed, survived, running]

cmdVars == <<reproc, ploop, direct, goc>>

vars == <<schedVars, apiVars, procVars, call, cmdVars>>

\* the variables an operation of one component leaves alone
notSchedVars == <<apiVars, procVars, call, cmdVars>>
notApiVars == <<schedVars, procVars, call, cmdVars>>
notProcVars == <<schedVars, apiVars, call, cmdVars>>
notCallVars == <<schedVars, apiVars, procVars, cmdVars>>

NoConfig == [id |-> "none", update_interval |-> 0]
DoneTask == [st |-> "done", cfg |-> NoConfig, cancel |-> FALSE]
LiveStates == {"waiting", "fetching"}
OrphanKinds == SourceIds \X LiveStates

\* add_source / remove_source / update_source returned ok for id
Returned(op, id, ok) ==
    [kind |-> op, id |-> id, ok |-> ok, outcome |-> "none", errcb |-> FALSE]
\* a crawl of id ended: the fetch had the given outcome, crawl_source
\* returned normally (ok) or raised, the error callback was invoked (errcb)
Crawled(id, outcome, ok, errcb) ==
    [kind |-> "crawl", id |-> id, ok |-> ok, outcome |-> outcome, errcb |-> errcb]

\* not task.done()
Live(task) == task.st \in LiveStates

SchedInit ==
    /\ now = 0
    /\ running = FALSE
    /\ loops = 0
    /\ sources = <<>>
    /\ source_instances = EmptyDict
    /\ last_crawl_time = EmptyDict
    /\ next_crawl_time = EmptyDict
    /\ running_tasks = EmptyDict
    /\ orphans = [k \in OrphanKinds |-> 0]
    /\ semaphore = max_concurrent_tasks
    /\ sources_file \in BOOLEAN
    /\ on_error_callback = TRUE   \* CrawlerApp registers handle_error
    /\ updating = NoConfig
    /\ event = [kind |-> "none", id |-> "none", ok |-> FALSE,
                outcome |-> "none", errcb |-> FALSE]


(***************************************************************************)
(* Source loading (CrawlerScheduler._load_sources, _initialize_sources)    *)
(***************************************************************************)
NoneId == "None"
\* DEFAULT_SOURCES: seven configurations, none of which sets an id.
DefaultSources ==
    << [id |-> NoneId, update_interval |-> 30],
       [id |-> NoneId, update_interval |-> 30],
       [id |-> NoneId, update_interval |-> 30],
       [id |-> NoneId, update_interval |-> 60],
       [id |-> NoneId, update_interval |-> 60],
       [id |-> NoneId, update_interval |-> 1440],
       [id |-> NoneId, update_interval |-> 60] >>

\* get_sources called with nargs positional arguments: a TypeError when the
\* function does not accept that many; _load_sources then falls back to [].
LoadSources(nargs) ==
    IF nargs > GetSourcesMaxArgs THEN <<>> ELSE DefaultSources

RECURSIVE InitializeSources(_, _, _, _)
InitializeSources(srcs, i, acc, delay) ==
    IF i > Len(srcs) THEN acc
    ELSE InitializeSources(srcs, i + 1,
            [inst |-> DictPut(acc.inst, srcs[i].id, srcs[i]),
             last |-> DictPut(acc.last, srcs[i].id, DatetimeMin),
             next |-> DictPut(acc.next, srcs[i].id, now + delay)],
            delay)

(***************************************************************************)
(* Interval arithmetic of crawl_source                                     *)
(***************************************************************************)
Max(a, b) == IF a >= b THEN a ELSE b
Min(a, b) == IF a <= b THEN a ELSE b

\* source.config.interval or self.default_interval
BaseInterval(c) == IF c.interval = 0 THEN default_interval ELSE c.interval

\* int(max(interval, min_interval) * jitter_factor)
JitteredInterval(c, f) == (Max(BaseInterval(c), min_interval) * f) \div 1000

(***************************************************************************)
(* Scheduler operations                                                    *)
(***************************************************************************)
\* CrawlerScheduler.start
Start ==
    /\ ~running
    /\ loops < MaxLoops
    /\ running' = TRUE
    \* random.randint(5, 60)
    /\ \E d \in {5, 60} :
         LET ld == LoadSources(2)
             r == InitializeSources(ld, 1,
                     [inst |-> source_instances, last |-> last_crawl_time,
                      next |-> next_crawl_time], d)
         IN /\ sources' = ld
            /\ source_instances' = r.inst
            /\ last_crawl_time' = r.last
            /\ next_crawl_time' = r.next
    /\ loops' = loops + 1
    /\ UNCHANGED <<now, running_tasks, orphans, semaphore, sources_file,
                   on_error_callback, updating, event>>
    /\ UNCHANGED notSchedVars

\* Mutation of CancelAll: the tasks are left to run.
CancelNone(reg) == reg

\* task.cancel() on every task of the registry that is not done
CancelAll(reg) ==
    [s \in DOMAIN reg |->
        IF Live(reg[s]) THEN [reg[s] EXCEPT !.cancel = TRUE] ELSE reg[s]]

\* CrawlerScheduler.stop: returns at once when the scheduler is not running
Stop ==
    IF ~running
    THEN UNCHANGED vars
    ELSE /\ running' = FALSE
         /\ running_tasks' = CancelAll(running_tasks)
         /\ UNCHANGED <<now, loops, sources, source_instances, last_crawl_time,
                        next_crawl_time, orphans, semaphore, sources_file,
                        on_error_callback, updating, event>>
         /\ UNCHANGED notSchedVars

\* sources_to_crawl of one loop iteration
SourcesToCrawl ==
    {s \in DOMAIN next_crawl_time :
        next_crawl_time[s] <= now /\ s \notin DOMAIN running_tasks}

\* One iteration of CrawlerScheduler._scheduling_loop (up to its sleep):
\* start a task for every due source, then reap the finished tasks.
LoopIter ==
    /\ loops > 0
    /\ running
    /\ LET due == SourcesToCrawl
           reg1 == [s \in (DOMAIN running_tasks) \cup due |->
                        \* asyncio.create_task(self._crawl_task(source_id))
                        IF s \in due
                        THEN [st |-> "waiting", cfg |-> NoConfig,
                              cancel |-> FALSE]
                        ELSE running_tasks[s]]
           completed == {s \in DOMAIN reg1 : reg1[s].st = "done"}
       IN running_tasks' = [s \in (DOMAIN reg1) \ completed |-> reg1[s]]
    /\ UNCHANGED <<now, running, loops, sources, source_instances,
                   last_crawl_time, next_crawl_time, orphans, semaphore,
                   sources_file, on_error_callback, updating, event>>
    /\ UNCHANGED notSchedVars

\* The loop leaves its while once it observes running = False.
LoopExit ==
    /\ loops > 0
    /\ ~running
    /\ loops' = loops - 1
    /\ UNCHANGED <<now, running, sources, source_instances, last_crawl_time,
                   next_crawl_time, running_tasks, orphans, semaphore,
                   sources_file, on_error_callback, updating, event>>
    /\ UNCHANGED notSchedVars

\* Mutation of SemaphoreGrants: the task enters without waiting for a permit.
SemaphoreGrantsAlways == TRUE

\* "async with self.semaphore": a permit is needed to enter.
SemaphoreGrants == semaphore > 0

\* _crawl_task up to the first suspension inside crawl_source: acquire the
\* semaphore, look the source up, start source.process().
TaskAcquire(s) ==
    /\ s \in DOMAIN running_tasks
    /\ running_tasks[s].st = "waiting"
    /\ ~running_tasks[s].cancel
    /\ SemaphoreGrants
    /\ IF s \in DOMAIN source_instances
       THEN /\ running_tasks' =
                 [running_tasks EXCEPT ![s].st = "fetching",
                                       ![s].cfg = source_instances[s]]
            /\ semaphore' = semaphore - 1
       ELSE \* ValueError("Unknown source"), caught by _crawl_task
            /\ running_tasks' = [running_tasks EXCEPT ![s] = DoneTask]
            /\ UNCHANGED semaphore
    /\ UNCHANGED <<now, running, loops, sources, source_instances,
                   last_crawl_time, next_crawl_time, orphans,
                   sources_file, on_error_callback, updating, event>>
    /\ UNCHANGED notSchedVars

\* the title of the article the feeds carry
FeedTitle == "Rain"

\* CrawlerApp._initialize_storage builds ArticleRepository(connection_string);
\* the constructor takes no argument besides self, the TypeError is logged and
\* storage_client stays None
RepositoryInitArgs == 0
StorageClientArgs == 1

\* _crawl_task hands the articles crawl_source returned to the article
\* callback, CrawlerApp.process_article, which stores each one if it has a
\* storage client
ArticleCallback(returned) ==
    /\ poll' = "none"
    /\ IF /\ returned
          /\ StorageClientArgs <= RepositoryInitArgs
          /\ Len(store) < MaxArticles
       THEN store' = Append(store, [title |-> FeedTitle,
                                    published_at |-> today - max_days_back,
                                    processed |-> FALSE, processed_at |-> 0,
                                    is_duplicate |-> FALSE, duplicate_of |-> 0])
       ELSE UNCHANGED store
    /\ UNCHANGED <<today, batch, stage, verdict, persisted, cands, last,
                   piped, indexed, index>>

\* Mutation of TaskFetchDone: the crawl reschedules the source one full
\* default interval ahead, without the cap of the retry branch.
TaskFetchDoneUncapped(s, outcome) ==
    /\ s \in DOMAIN running_tasks
    /\ running_tasks[s].st = "fetching"
    /\ ~running_tasks[s].cancel
    /\ last_crawl_time' = DictPut(last_crawl_time, s, now)
    /\ next_crawl_time' = DictPut(next_crawl_time, s, now + default_interval)
    /\ event' = Crawled(s, outcome, FALSE, on_error_callback)
    /\ running_tasks' = [running_tasks EXCEPT ![s] = DoneTask]
    /\ semaphore' = semaphore + 1
    /\ UNCHANGED <<now, running, loops, sources, source_instances, orphans,
                   sources_file, on_error_callback, updating>>
    /\ UNCHANGED notSchedVars

\* source.process() returns (it swallows every fetch failure and returns a
\* result either way); the rest of crawl_source and _crawl_task runs.
TaskFetchDone(s, outcome) ==
    /\ s \in DOMAIN running_tasks
    /\ running_tasks[s].st = "fetching"
    /\ ~running_tasks[s].cancel
    /\ LET c == running_tasks[s].cfg
       IN /\ last_crawl_time' = DictPut(last_crawl_time, s, now)
          /\ IF ConfigHasInterval
             \* 1.0 + random.uniform(-jitter, jitter), in permille
             THEN /\ \E f \in {1000 - JitterPermille, 1000, 1000 + JitterPermille} :
                       next_crawl_time' =
                          DictPut(next_crawl_time, s, now + JitteredInterval(c, f))
                  /\ event' = Crawled(s, outcome, TRUE, FALSE)
             ELSE \* AttributeError in the try block: the except branch runs
                  \* the error callback, then fails on the same attribute
                  \* before it reschedules; _crawl_task logs the error.
                  /\ event' = Crawled(s, outcome, FALSE, on_error_callback)
                  /\ UNCHANGED next_crawl_time
    /\ running_tasks' = [running_tasks EXCEPT ![s] = DoneTask]
    /\ semaphore' = semaphore + 1
    /\ ArticleCallback(ConfigHasInterval /\ outcome = "ok")
    /\ UNCHANGED <<now, running, loops, sources, source_instances, orphans,
                   sources_file, on_error_callback, updating>>
    /\ UNCHANGED <<apiVars, call, cmdVars>>

\* A cancellation requested with task.cancel() reaches the task on a later
\* cycle of the event loop: CancelledError unwinds _crawl_task, which gives
\* back the permit it holds.
TaskCancelled(s) ==
    /\ s \in DOMAIN running_tasks
    /\ Live(running_tasks[s])
    /\ running_tasks[s].cancel
    /\ running_tasks' = [running_tasks EXCEPT ![s] = DoneTask]
    /\ semaphore' = IF running_tasks[s].st = "fetching"
                    THEN semaphore + 1 ELSE semaphore
    /\ UNCHANGED <<now, running, loops, sources, source_instances,
                   last_crawl_time, next_crawl_time, orphans,
                   sources_file, on_error_callback, updating, event>>
    /\ UNCHANGED notSchedVars

\* The same for a cancelled task that remove_source took out of the registry.
OrphanCancelled(k) ==
    /\ orphans[k] > 0
    /\ orphans' = [orphans EXCEPT ![k] = @ - 1]
    /\ semaphore' = IF k[2] = "fetching" THEN semaphore + 1 ELSE semaphore
    /\ UNCHANGED <<now, running, loops, sources, source_instances,
                   last_crawl_time, next_crawl_time, running_tasks,
                   sources_file, on_error_callback, updating, event>>
    /\ UNCHANGED notSchedVars

(***************************************************************************)
(* Dynamic source management                                               *)
(***************************************************************************)
Bookkeeping ==
    [sources |-> sources, inst |-> source_instances, last |-> last_crawl_time,
     next |-> next_crawl_time, reg |-> running_tasks, orphans |-> orphans]

SetBookkeeping(B) ==
    /\ sources' = B.sources
    /\ source_instances' = B.inst
    /\ last_crawl_time' = B.last
    /\ next_crawl_time' = B.next
    /\ running_tasks' = B.reg
    /\ orphans' = B.orphans

RECURSIVE SumOver(_, _)
SumOver(f, S) ==
    IF S = {} THEN 0
    ELSE LET k == CHOOSE x \in S : TRUE IN f[k] + SumOver(f, S \ {k})

OrphanCount(B) == SumOver(B.orphans, OrphanKinds)

RECURSIVE WithoutId(_, _)
WithoutId(srcs, id) ==
    IF srcs = <<>> THEN <<>>
    ELSE IF Head(srcs).id = id THEN WithoutId(Tail(srcs), id)
         ELSE <<Head(srcs)>> \o WithoutId(Tail(srcs), id)

\* Mutation of AddEffect: an existing id is set up afresh.
AddEffectOverwrite(B, c) ==
    [B EXCEPT !.inst = DictPut(B.inst, c.id, c),
              !.last = DictPut(B.last, c.id, DatetimeMin),
              !.next = DictPut(B.next, c.id, now),
              !.sources = Append(B.sources, c)]

\* State changes of add_source.
AddEffect(B, c) ==
    IF c.id \in DOMAIN B.inst THEN B
    ELSE [B EXCEPT !.inst = DictPut(B.inst, c.id, c),
                   !.last = DictPut(B.last, c.id, DatetimeMin),
                   !.next = DictPut(B.next, c.id, now),
                   !.sources = Append(B.sources, c)]

\* Return value of add_source: the save step raises when a sources file is
\* configured (get_sources takes neither save nor sources).
AddReturns(B, c) == c.id \notin DOMAIN B.inst /\ ~sources_file

\* remove_source pops the task of id and cancels it unless it is done; the
\* cancelled task lives on until the cancellation reaches it.
PopAndCancel(B, id) ==
    IF id \in DOMAIN B.reg /\ Live(B.reg[id])
    THEN [B.orphans EXCEPT ![<<id, B.reg[id].st>>] = @ + 1]
    ELSE B.orphans

\* Mutation of RemoveEffect: the crawl times of the source are left behind.
RemoveEffectKeepsTimes(B, id) ==
    IF id \notin DOMAIN B.inst THEN B
    ELSE [B EXCEPT !.orphans = PopAndCancel(B, id),
                   !.reg = DictDel(B.reg, id),
                   !.inst = DictDel(B.inst, id),
                   !.sources = WithoutId(B.sources, id)]

\* State changes of remove_source.
RemoveEffect(B, id) ==
    IF id \notin DOMAIN B.inst THEN B
    ELSE [B EXCEPT !.orphans = PopAndCancel(B, id),
                   !.reg = DictDel(B.reg, id),
                   !.inst = DictDel(B.inst, id),
                   !.last = DictDel(B.last, id),
                   !.next = DictDel(B.next, id),
                   !.sources = WithoutId(B.sources, id)]

RemoveReturns(B, id) == id \in DOMAIN B.inst /\ ~sources_file

\* CrawlerScheduler.add_source
AddSource(c) ==
    /\ SetBookkeeping(AddEffect(Bookkeeping, c))
    /\ event' = Returned("add", c.id, AddReturns(Bookkeeping, c))
    /\ UNCHANGED <<now, running, loops, semaphore, sources_file,
                   on_error_callback, updating>>
    /\ UNCHANGED notSchedVars

\* CrawlerScheduler.remove_source
RemoveSource(id) ==
    /\ OrphanCount(RemoveEffect(Bookkeeping, id)) <= MaxOrphans
    /\ SetBookkeeping(RemoveEffect(Bookkeeping, id))
    /\ event' = Returned("remove", id, RemoveReturns(Bookkeeping, id))
    /\ UNCHANGED <<now, running, loops, semaphore, sources_file,
                   on_error_callback, updating>>
    /\ UNCHANGED notSchedVars

\* CrawlerScheduler.update_source.  Without a sources file nothing in it
\* suspends; with one, remove_source suspends in its save step and the add
\* follows in UpdateResume.
UpdateSource(c) ==
    /\ updating = NoConfig
    /\ OrphanCount(RemoveEffect(Bookkeeping, c.id)) <= MaxOrphans
    /\ IF c.id \notin DOMAIN source_instances
       THEN /\ event' = Returned("update", c.id, FALSE)
            /\ UNCHANGED <<sources, source_instances, last_crawl_time,
                           next_crawl_time, running_tasks, orphans, updating>>
       ELSE IF sources_file
       THEN /\ SetBookkeeping(RemoveEffect(Bookkeeping, c.id))
            /\ updating' = c
            /\ UNCHANGED event
       ELSE LET B1 == RemoveEffect(Bookkeeping, c.id)
            IN /\ SetBookkeeping(AddEffect(B1, c))
               /\ event' = Returned("update", c.id, AddReturns(B1, c))
               /\ UNCHANGED updating
    /\ UNCHANGED <<now, running, loops, semaphore, sources_file,
                   on_error_callback>>
    /\ UNCHANGED notSchedVars

UpdateResume ==
    /\ updating # NoConfig
    /\ SetBookkeeping(AddEffect(Bookkeeping, updating))
    /\ event' = Returned("update", updating.id, AddReturns(Bookkeeping, updating))
    /\ updating' = NoConfig
    /\ UNCHANGED <<now, running, loops, semaphore, sources_file,
                   on_error_callback>>
    /\ UNCHANGED notSchedVars


(***************************************************************************)
(* API middlewares: rate limiter (src/api/middlewares/rate_limit.py) and   *)
(* authentication (src/api/middlewares/auth.py)                            *)
(***************************************************************************)
Ips == {"10.0.0.1", "10.0.0.2"}
Paths == {"/docs", "/redoc", "/openapi.json", "/token", "/api/news"}

\* RateLimitMiddleware.exclude_paths
RateExcludePaths == {"/docs", "/redoc", "/openapi.json"}
\* paths AuthMiddleware lets through unauthenticated
AuthBypassPaths == {"/docs", "/redoc", "/openapi.json", "/token"}

\* time_window, in ticks
WindowTicks == time_window * TicksPerSecond

\* An Authorization header: absent, or a string that is empty or not and
\* that str.split() cuts into words.
Header(given, nonempty, words) ==
    [given |-> given, nonempty |-> nonempty, words |-> words]
NoHeader == Header(FALSE, FALSE, <<>>)

TokenExpiry == 2

Headers ==
    {NoHeader, Header(TRUE, FALSE, <<>>),
     Header(TRUE, TRUE, <<"Bearer">>), Header(TRUE, TRUE, <<"Bearer", "tGood", "x">>)}
    \* tokens: well signed without expiry, well signed expiring at TokenExpiry,
    \* signed with another key, not a JWT at all
    \cup {Header(TRUE, TRUE, <<sc, tk>>) :
            sc \in {"Bearer", "bearer", "Basic"},
            tk \in {"tGood", "tExpiring", "tBadSig", "tJunk"}}

\* str.lower() on the scheme word
Lower(w) == IF w = "Bearer" THEN "bearer"
            ELSE IF w = "Basic" THEN "basic" ELSE w

\* jwt.decode(token, SECRET_KEY, algorithms=[ALGORITHM]) succeeds at time t
JwtDecodes(tk, t) ==
    \/ tk = "tGood"
    \/ tk = "tExpiring" /\ t < TokenExpiry

NoResp == [mw |-> "none", ip |-> "none", path |-> "none", header |-> NoHeader,
           time |-> 0, status |-> 0, retry |-> 0, www |-> FALSE,
           passed |-> FALSE, user |-> "none"]

ApiInit ==
    /\ api_now = 0
    /\ requests = EmptyDict
    /\ admitted = [ip \in Ips |-> <<>>]
    /\ resp = NoResp

\* ts is kept by the window filter at time cur
Keep(cur, ts) == cur - ts < WindowTicks

Kept(lst, cur) == SelectSeq(lst, LAMBDA ts : Keep(cur, ts))

\* Mutation of LimitExceeded: off by one.
LimitExceededOffByOne(n) == n > rate_limit

\* len(self.requests[ip]) >= self.rate_limit
LimitExceeded(n) == n >= rate_limit

\* min(self.requests[ip])
RECURSIVE Oldest(_)
Oldest(lst) ==
    IF Len(lst) = 1 THEN lst[1]
    ELSE Min(lst[1], Oldest(Tail(lst)))

\* Mutation of RetryAfter: without the floor of one second.
RetryAfterNoFloor(cur, oldest) ==
    (WindowTicks - (cur - oldest)) \div TicksPerSecond

\* max(1, int(self.time_window - (current_time - oldest_timestamp)))
RetryAfter(cur, oldest) ==
    Max(1, (WindowTicks - (cur - oldest)) \div TicksPerSecond)

\* RateLimitMiddleware.__call__ with RateLimiter.is_rate_limited
RateLimitCall(ip, path) ==
    /\ IF path \in RateExcludePaths
       THEN /\ resp' = [NoResp EXCEPT !.mw = "rate", !.ip = ip, !.path = path,
                           !.time = api_now, !.status = 200, !.passed = TRUE]
            /\ UNCHANGED <<requests, admitted>>
       ELSE LET lst == IF ip \in DOMAIN requests THEN requests[ip] ELSE <<>>
                kept == Kept(lst, api_now)
            IN IF LimitExceeded(Len(kept))
               THEN /\ requests' = DictPut(requests, ip, kept)
                    /\ resp' = [NoResp EXCEPT !.mw = "rate", !.ip = ip,
                                   !.path = path, !.time = api_now,
                                   !.status = 429,
                                   !.retry = RetryAfter(api_now, Oldest(kept))]
                    /\ UNCHANGED admitted
               ELSE /\ requests' = DictPut(requests, ip, Append(kept, api_now))
                    /\ admitted' = [admitted EXCEPT ![ip] = Append(@, api_now)]
                    /\ resp' = [NoResp EXCEPT !.mw = "rate", !.ip = ip,
                                   !.path = path, !.time = api_now,
                                   !.status = 200, !.passed = TRUE]
    /\ UNCHANGED <<api_now, notApiVars>>

\* One pass of RateLimiter._cleanup_old_requests
Cleanup ==
    /\ LET nonempty == {ip \in DOMAIN requests : Kept(requests[ip], api_now) # <<>>}
       IN requests' = [ip \in nonempty |-> Kept(requests[ip], api_now)]
    /\ UNCHANGED <<api_now, admitted, resp, notApiVars>>

ApiTick ==
    /\ api_now < MaxApiTime
    /\ api_now' = api_now + 1
    /\ UNCHANGED <<requests, admitted, resp, notApiVars>>

\* AuthMiddleware.__call__ with verify_token
AuthCall(path, h) ==
    /\ LET r == [NoResp EXCEPT !.mw = "auth", !.path = path, !.header = h,
                               !.time = api_now]
       IN resp' =
            IF path \in AuthBypassPaths
            THEN [r EXCEPT !.status = 200, !.passed = TRUE]
            ELSE IF ~h.given \/ ~h.nonempty
            THEN [r EXCEPT !.status = 401, !.www = TRUE]
            ELSE IF Len(h.words) # 2
            THEN \* "scheme, token = authorization.split()" raises ValueError
                 [r EXCEPT !.status = 500]
            ELSE IF Lower(h.words[1]) # "bearer"
            THEN [r EXCEPT !.status = 401, !.www = TRUE]
            ELSE IF ~JwtDecodes(h.words[2], api_now)
            THEN [r EXCEPT !.status = 401, !.www = TRUE]
            ELSE [r EXCEPT !.status = 200, !.passed = TRUE,
                           !.user = h.words[2]]
    /\ UNCHANGED <<api_now, requests, admitted, notApiVars>>




(***************************************************************************)
(* Processor: processing loop (src/processor/main.py) and duplicate        *)
(* detector (src/processor/deduplication/duplicate_detector.py).  The      *)
(* article store the two call (get_articles, update_article) follows the   *)
(* specification of the relational store.                                  *)
(***************************************************************************)
Titles == {"Storm", "STORM", "Rain"}

\* str.strip().lower() on a title
LowerTitle(t) ==
    IF t = "STORM" \/ t = "Storm" THEN "storm"
    ELSE IF t = "" THEN ""
    ELSE "rain"

NoVerdict == [dup |-> FALSE, of |-> 0]

ProcInit ==
    /\ today = 0
    /\ store = <<>>
    /\ batch = <<>>
    /\ stage = <<>>
    /\ verdict = <<>>
    /\ persisted = <<>>
    /\ cands = EmptyDict
    /\ last = 0
    /\ piped = <<>>
    /\ indexed = <<>>
    /\ index = {}
    /\ poll = "none"

Ids == DOMAIN store

\* publication dates of the articles the fetchers deliver: the oldest the
\* candidate query still returns on the day the article is stored
PublishedDates == {today - max_days_back}

\* a fetcher's article reaches the store, unprocessed
Ingest(title, pub) ==
    /\ Len(store) < MaxArticles
    /\ store' = Append(store, [title |-> title, published_at |-> pub,
                               processed |-> FALSE, processed_at |-> 0,
                               is_duplicate |-> FALSE, duplicate_of |-> 0])
    /\ UNCHANGED <<today, batch, stage, verdict, persisted, cands, last,
                   piped, indexed, index, poll, notProcVars>>

ProcTick ==
    /\ today < MaxDay
    /\ today' = today + 1
    /\ UNCHANGED <<store, batch, stage, verdict, persisted, cands, last,
                   piped, indexed, index, poll, notProcVars>>

\* get_articles(processed=False, limit=n): the rows a query may return
Unprocessed == {a \in Ids : ~store[a].processed}

\* the loop, or process_article, takes the articles q in hand
Begin(q) ==
    /\ batch' = q
    /\ stage' = [i \in DOMAIN q |-> "pending"]
    /\ verdict' = [i \in DOMAIN q |-> NoVerdict]
    /\ persisted' = [i \in DOMAIN q |-> FALSE]
    /\ piped' = [i \in DOMAIN q |-> FALSE]
    /\ indexed' = [i \in DOMAIN q |-> FALSE]
    /\ last' = 0
    /\ cands' = EmptyDict

\* _get_unprocessed_articles, at the top of a processing cycle
FetchBatch ==
    /\ batch = <<>>
    /\ Unprocessed # {}
    \* up to batch_size of them, each once, in the order of the query
    /\ \E q \in [1..Min(batch_size, Cardinality(Unprocessed)) -> Unprocessed] :
          /\ \A i, j \in DOMAIN q : i # j => q[i] # q[j]
          /\ Begin(q)
    /\ poll' = "running"
    /\ UNCHANGED <<today, store, index, notProcVars>>

\* a processing cycle that finds no unprocessed article: the loop sleeps
IdleCycle ==
    /\ batch = <<>>
    /\ Unprocessed = {}
    /\ poll' = "done"
    /\ UNCHANGED <<today, store, batch, stage, verdict, persisted, cands, last,
                   piped, indexed, index, notProcVars>>

\* ProcessorApp.process_article(id), up to get_article_by_id: the same
\* check, update and index sequence as the loop body, on the one article
ProcessArticle(id) ==
    /\ batch = <<>>
    /\ id \in Ids
    /\ Begin(<<id>>)
    /\ UNCHANGED <<today, store, index, poll, notProcVars>>

\* get_articles(start_date=, exclude_ids=[id], limit=100)
RecentArticlesIn(rows, id, day) ==
    LET found == {a \in DOMAIN rows \ {id} : rows[a].published_at >= day - max_days_back}
    IN IF Cardinality(found) <= CandidateLimit
       THEN {found}
       ELSE {S \in SUBSET found : Cardinality(S) = CandidateLimit}

\* Mutation of ExactMatchesOf: the titles are compared as they are written.
ExactMatchesCaseSensitive(t, cs) ==
    {c \in DOMAIN cs : t # "" /\ cs[c].title = t}

\* _check_exact_match: the candidates whose title equals the article's,
\* case-insensitively; the first one met in the list is returned
\* (articles carry no url here, so the url comparison never matches)
ExactMatchesOf(t, cs) ==
    {c \in DOMAIN cs : /\ LowerTitle(t) # ""
                       /\ cs[c].title # ""
                       /\ LowerTitle(cs[c].title) = LowerTitle(t)}

\* _check_fuzzy_match on articles without content: Jaccard similarity of the
\* title word sets (in tenths), against similarity_threshold = 0.8
FuzzyMatchesOf(t, cs) ==
    {c \in DOMAIN cs :
        /\ t # ""
        /\ cs[c].title # ""
        /\ (IF LowerTitle(cs[c].title) = LowerTitle(t) THEN 10 ELSE 0) > 8}

\* DuplicateDetector.__init__: the defaults of the strategy switches
\* (use_minhash defaults to False and stays off throughout)
use_exact_match == TRUE
use_fuzzy_match == TRUE

\* _find_duplicate: the verdicts on candidates cs for an article titled t,
\* under the given strategy switches
FindDuplicate(t, cs, exact, fuzzy) ==
    IF exact /\ ExactMatchesOf(t, cs) # {}
    THEN {[dup |-> TRUE, of |-> c] : c \in ExactMatchesOf(t, cs)}
    ELSE IF fuzzy /\ FuzzyMatchesOf(t, cs) # {}
    THEN {[dup |-> TRUE, of |-> c] : c \in FuzzyMatchesOf(t, cs)}
    ELSE {NoVerdict}

\* Mutation of CanStart: the checks run in order but do not wait for the
\* previous article's write.
CanStartUnawaited(i) == \A j \in 1..(i - 1) : stage[j] # "pending"

\* the for loop over the batch: the body for position i starts when the
\* bodies of all earlier positions have ended
CanStart(i) == \A j \in 1..(i - 1) : stage[j] = "done"

\* check_duplicate(article, db_client) for batch position i
Check(i, queryOk) ==
    /\ i \in DOMAIN batch
    /\ stage[i] = "pending"
    /\ CanStart(i)
    /\ IF queryOk
       THEN \E S \in RecentArticlesIn(store, batch[i], today) :
               /\ cands' = [a \in S |-> store[a]]
               /\ S = {} => verdict' = verdict
               /\ S # {} =>
                     \E v \in FindDuplicate(store[batch[i]].title,
                                            [a \in S |-> store[a]],
                                            use_exact_match, use_fuzzy_match) :
                        verdict' = [verdict EXCEPT ![i] = v]
       ELSE \* _get_recent_articles logs the error and returns []
            /\ cands' = EmptyDict
            /\ verdict' = verdict
    /\ stage' = [stage EXCEPT ![i] = "checked"]
    /\ last' = i
    /\ UNCHANGED <<today, store, batch, persisted, piped, indexed, index,
                   poll, notProcVars>>

\* Mutation of RunsPipeline: the duplicate branch falls through.
RunsPipelineAlways(dup) == TRUE

\* the duplicate branch ends with "continue" ("return" in process_article):
\* _process_article runs on the articles not flagged duplicate
RunsPipeline(dup) == ~dup

\* Mutation of ReachesIndex: the article is indexed whether or not the
\* relational update went through.
ReachesIndexUnconditionally(dup, updateOk) == ~dup

\* index_article is awaited after update_article in the same try block, on
\* the non-duplicate path only
ReachesIndex(dup, updateOk) == ~dup /\ updateOk

\* the rest of the loop body for position i: flag and update_article, or
\* _process_article, update_article and index_article
Persist(i, updateOk, indexOk) ==
    /\ i \in DOMAIN batch
    /\ stage[i] = "checked"
    /\ piped' = [piped EXCEPT ![i] = RunsPipeline(verdict[i].dup)]
    /\ IF updateOk
       THEN /\ store' = [store EXCEPT ![batch[i]] =
                            IF verdict[i].dup
                            THEN [@ EXCEPT !.is_duplicate = TRUE,
                                           !.duplicate_of = verdict[i].of]
                            ELSE [@ EXCEPT !.processed = TRUE,
                                           !.processed_at = today + 1]]
            /\ persisted' = [persisted EXCEPT ![i] = TRUE]
       ELSE \* the except branch logs the error and the loop goes on
            UNCHANGED <<store, persisted>>
    /\ IF ReachesIndex(verdict[i].dup, updateOk) /\ indexOk
       THEN /\ index' = index \cup {batch[i]}
            /\ indexed' = [indexed EXCEPT ![i] = TRUE]
       ELSE UNCHANGED <<index, indexed>>
    /\ stage' = [stage EXCEPT ![i] = "done"]
    /\ UNCHANGED <<today, batch, verdict, cands, last, poll, notProcVars>>

\* the batch is through; the loop sleeps processing_interval
EndBatch ==
    /\ batch # <<>>
    /\ \A i \in DOMAIN batch : stage[i] = "done"
    /\ batch' = <<>>
    /\ stage' = <<>>
    /\ verdict' = <<>>
    /\ persisted' = <<>>
    /\ piped' = <<>>
    /\ indexed' = <<>>
    /\ cands' = EmptyDict
    /\ last' = 0
    /\ poll' = IF poll = "running" THEN "done" ELSE poll
    /\ UNCHANGED <<today, store, index, notProcVars>>

(***************************************************************************)
(* The --reprocess-all command (main() of src/processor/main.py)           *)
(***************************************************************************)
\* None in a nullable column (processed_at, duplicate_of)
Absent == 0

\* no crawl_source call is in flight
NoDirect == [st |-> "none", id |-> "none"]
(***************************************************************************)
(* Taxonomy tables (Category, Entity, Tag) and get_or_create               *)
(***************************************************************************)
Tables == {"categories", "entities", "tags"}
\* what get_or_create looks a row up by: a name, or a (name, type) pair
Names == {"Politics", "Sports"}
\* repository instances, each with a session of its own
Repositories == {"api", "processor"}
IdleCall == [pc |-> "idle", table |-> "none", key |-> "none"]

CmdInit ==
    /\ reproc = [pc |-> "idle", snap |-> <<>>, i |-> 0]
    \* ProcessorApp.start: running = True and the loop is created
    /\ ploop = [pc |-> "top", len |-> 0, i |-> 0, failed |-> FALSE,
                survived |-> FALSE, running |-> TRUE]
    /\ direct = NoDirect
    /\ goc = [rows |-> [tk \in Tables \X Names |-> 0],
              calls |-> [r \in Repositories |-> IdleCall]]


\* get_or_create up to the answer of its query: the row is returned when
\* the query finds one, otherwise the call goes on to create().
GetOrCreateQuery(r, table, key) ==
    /\ goc.calls[r].pc = "idle"
    /\ goc' = [goc EXCEPT !.calls[r] =
                 [pc |-> IF goc.rows[<<table, key>>] > 0
                         THEN "returned" ELSE "creating",
                  table |-> table, key |-> key]]
    /\ UNCHANGED <<schedVars, apiVars, procVars, call, reproc, ploop, direct>>

\* BaseRepository.create: session.add and session.commit.  The commit of a
\* second row with the same name fails where the name column is unique
\* (IntegrityError, which get_or_create does not catch); a table without
\* the constraint takes the row.
GetOrCreateInsert(r) ==
    /\ goc.calls[r].pc = "creating"
    /\ LET tk == <<goc.calls[r].table, goc.calls[r].key>>
       IN \* Category.name and Tag.name are declared unique=True
          IF goc.calls[r].table \in {"categories", "tags"} /\ goc.rows[tk] > 0
          THEN goc' = [goc EXCEPT !.calls[r].pc = "raised"]
          ELSE goc' = [goc EXCEPT !.rows[tk] = @ + 1,
                                  !.calls[r].pc = "returned"]
    /\ UNCHANGED <<schedVars, apiVars, procVars, call, reproc, ploop, direct>>

\* the caller has its answer; the repository is free for a next call
GetOrCreateEnd(r) ==
    /\ goc.calls[r].pc \in {"returned", "raised"}
    /\ goc' = [goc EXCEPT !.calls[r] = IdleCall]
    /\ UNCHANGED <<schedVars, apiVars, procVars, call, reproc, ploop, direct>>

NextGoc ==
    \/ \E r \in Repositories, t \in Tables, k \in Names :
          GetOrCreateQuery(r, t, k)
    \/ \E r \in Repositories : GetOrCreateInsert(r)
    \/ \E r \in Repositories : GetOrCreateEnd(r)


\* BaseRepository.update: setattr for every value that is not None
ApplyUpdate(row, obj) ==
    [row EXCEPT !.title = obj.title,
                !.published_at = obj.published_at,
                !.processed = obj.processed,
                !.is_duplicate = obj.is_duplicate,
                !.processed_at = IF obj.processed_at # Absent THEN obj.processed_at ELSE @,
                !.duplicate_of = IF obj.duplicate_of # Absent THEN obj.duplicate_of ELSE @]

\* get_articles(limit=0): the command reads every article
ReprocessStart ==
    /\ reproc.pc # "reset"
    /\ reproc' = [pc |-> "reset", snap |-> store, i |-> 1]
    /\ UNCHANGED <<schedVars, apiVars, procVars, call, ploop, direct, goc>>

\* one turn of the for loop: reset the flags and update the article; a
\* failing update is printed and the loop goes on
ReprocessReset(updateOk) ==
    /\ reproc.pc = "reset"
    /\ reproc.i <= Len(reproc.snap)
    /\ IF updateOk
       THEN \* the article as the command changes it before it writes it back
            LET article ==
                   [reproc.snap[reproc.i] EXCEPT
                       !.processed = FALSE, !.processed_at = Absent,
                       !.is_duplicate = FALSE, !.duplicate_of = Absent]
            IN store' = [store EXCEPT ![reproc.i] = ApplyUpdate(@, article)]
       ELSE UNCHANGED store
    /\ reproc' = [reproc EXCEPT !.i = @ + 1]
    /\ UNCHANGED <<today, batch, stage, verdict, persisted, cands, last,
                   piped, indexed, index, poll>>
    /\ UNCHANGED <<schedVars, apiVars, call, ploop, direct, goc>>

\* "All articles have been reset for reprocessing"
ReprocessEnd ==
    /\ reproc.pc = "reset"
    /\ reproc.i > Len(reproc.snap)
    /\ reproc' = [pc |-> "done", snap |-> <<>>, i |-> 0]
    /\ UNCHANGED <<schedVars, apiVars, procVars, call, ploop, direct, goc>>

\* no stateless operation has been called yet
NoCall == [fn |-> "none"]
CallInit == call = NoCall

\* The scheduler as constructed, for the specifications of the other parts.
SchedIdle == SchedInit /\ sources_file = FALSE


InitApi == SchedIdle /\ ApiInit /\ ProcInit /\ CallInit /\ CmdInit

NextRate ==
    \/ ApiTick
    \/ \E ip \in Ips, path \in Paths : RateLimitCall(ip, path)
    \/ Cleanup

SpecRate == InitApi /\ [][NextRate]_vars

NextAuth ==
    \/ ApiTick
    \/ \E path \in Paths, h \in Headers : AuthCall(path, h)

SpecAuth == InitApi /\ [][NextAuth]_vars

Init == SchedInit /\ ApiInit /\ ProcInit /\ CallInit /\ CmdInit

InitProc == SchedIdle /\ ApiInit /\ ProcInit /\ CallInit /\ CmdInit

NextProc ==
    \/ \E t \in Titles, pub \in PublishedDates : Ingest(t, pub)
    \/ ProcTick
    \/ FetchBatch
    \/ IdleCycle
    \/ \E id \in 1..MaxArticles : ProcessArticle(id)
    \/ \E i \in 1..batch_size, ok \in BOOLEAN : Check(i, ok)
    \/ \E i \in 1..batch_size, uok \in BOOLEAN, iok \in BOOLEAN : Persist(i, uok, iok)
    \/ EndBatch

SpecProc == InitProc /\ [][NextProc]_vars

\* the processor with the --reprocess-all command run beside it
NextReproc ==
    \/ \E t \in Titles, pub \in PublishedDates : Ingest(t, pub)
    \/ FetchBatch
    \/ \E i \in 1..batch_size : Check(i, TRUE)
    \/ \E i \in 1..batch_size : Persist(i, TRUE, TRUE)
    \/ EndBatch
    \/ ReprocessStart
    \/ \E ok \in BOOLEAN : ReprocessReset(ok)
    \/ ReprocessEnd

SpecReproc == InitProc /\ [][NextReproc]_vars

SpecGoc == InitProc /\ [][NextGoc]_vars



(***************************************************************************)
(* Stateless operations: each call draws its arguments and leaves them and *)
(* its result in the variable call                                         *)
(***************************************************************************)

\* An optional string: <<>> is None or an absent key, <<s>> the string s.
None == <<>>
Str(x) == <<x>>
\* Python truthiness of an optional string
Truthy(x) == x # None /\ x[1] # ""

RECURSIVE Count(_, _)
Count(lst, x) ==
    IF lst = <<>> THEN 0
    ELSE (IF Head(lst) = x THEN 1 ELSE 0) + Count(Tail(lst), x)

(***************************************************************************)
(* BaseSource.normalize_article (src/crawler/sources/base.py)              *)
(***************************************************************************)
CategoryNames == {"news", "tech"}
MaxRawCategories == 2
\* lists of at most MaxRawCategories category names
RawCategories == UNION {[1..k -> CategoryNames] : k \in 0..MaxRawCategories}

RawArticles ==
    [title : {None, Str(""), Str("Storm")},
     url : {None, Str(""), Str("http://n/1")},
     categories : RawCategories]

\* normalize_article(article) of a source with the given category: <<>> for
\* None, <<normalized>> otherwise
NormalizeArticle(raw, category) ==
    IF ~Truthy(raw.title) \/ ~Truthy(raw.url)
    THEN <<>>
    ELSE << [title |-> raw.title, url |-> raw.url,
             categories |->
                 IF Truthy(category) /\ Count(raw.categories, category[1]) = 0
                 THEN Append(raw.categories, category[1])
                 ELSE raw.categories] >>

NormalizeCall(raw, category) ==
    /\ call = NoCall
    /\ call' = [fn |-> "normalize_article",
                arg |-> [raw |-> raw, category |-> category],
                out |-> NormalizeArticle(raw, category)]
    /\ UNCHANGED notCallVars

(***************************************************************************)
(* DuplicateDetector.check_duplicate as a function of the stored rows and  *)
(* the detector's configuration                                            *)
(***************************************************************************)
CallDay == 0
Stores ==
    UNION {[1..k -> [title : Titles \cup {""},
                     published_at : {CallDay - max_days_back,
                                     CallDay - max_days_back - 1}]] :
             k \in 1..MaxArticles}

\* check_duplicate(rows[id], repository) with the repository holding rows;
\* queryOk: repository.get_articles returns
CheckDuplicateCall(rows, id, enabled, exact, fuzzy, queryOk) ==
    /\ call = NoCall
    /\ id \in DOMAIN rows
    /\ \E S \in RecentArticlesIn(rows, id, CallDay) :
         LET skipped == ~enabled \/ rows[id].title = ""
             cs == IF skipped \/ ~queryOk THEN EmptyDict ELSE [a \in S |-> rows[a]]
         IN \E v \in (IF DOMAIN cs = {} THEN {NoVerdict}
                       ELSE FindDuplicate(rows[id].title, cs, exact, fuzzy)) :
               call' = [fn |-> "check_duplicate",
                        arg |-> [rows |-> rows, id |-> id, enabled |-> enabled,
                                 exact |-> exact, fuzzy |-> fuzzy],
                        cands |-> DOMAIN cs,
                        out |-> v]
    /\ UNCHANGED notCallVars

(***************************************************************************)
(* Classifier.process (src/processor/pipeline/classifier.py)               *)
(***************************************************************************)
default_category == "general"
\* confidences in tenths; min_confidence = 0.5
min_confidence == 5
ClassifierArticles ==
    \* contents by their length against min_content_length
    [content : {None, Str(""), Str("short"), Str("long")},
     title : {None, Str(""), Str("Storm")},
     \* metadata.classification_confidence: <<>> when the key is absent
     categories : RawCategories, confidence : {<<>>, <<9>>}]

ClassifyArticle ==
    {[raised |-> FALSE, categories |-> <<default_category>>, confidence |-> 0],
     [raised |-> FALSE, categories |-> <<default_category>>, confidence |-> min_confidence - 2],
     [raised |-> FALSE, categories |-> <<"tech">>, confidence |-> 9],
     \* _classify_article: no result, a result under min_confidence, a result
     \* over it, or an exception
     [raised |-> TRUE, categories |-> <<>>, confidence |-> 0]}

\* process(article) under the configuration (enabled, override_existing),
\* with c the outcome of _classify_article should it be called
ClassifierProcess(article, enabled, override_existing, c) ==
    IF ~enabled THEN article
    ELSE IF article.categories # <<>> /\ ~override_existing THEN article
    ELSE IF ~Truthy(article.content) /\ ~Truthy(article.title)
    THEN [article EXCEPT !.categories = <<default_category>>]
    ELSE IF Truthy(article.content) /\ article.content = Str("short") /\ ~Truthy(article.title)
    THEN [article EXCEPT !.categories = <<default_category>>]
    ELSE IF c.raised
    THEN [article EXCEPT !.categories = <<default_category>>]
    ELSE [article EXCEPT !.categories = c.categories, !.confidence = <<c.confidence>>]

ClassifierCall(article, enabled, override_existing, c) ==
    /\ call = NoCall
    /\ call' = [fn |-> "classifier",
                arg |-> [article |-> article, enabled |-> enabled,
                         override_existing |-> override_existing],
                out |-> ClassifierProcess(article, enabled, override_existing, c)]
    /\ UNCHANGED notCallVars

(***************************************************************************)
(* Category distribution: AnalyticsRepository.get_category_distribution    *)
(* (src/storage/database/repository.py) and the generator of               *)
(* AnalyticsService.get_category_distribution                              *)
(***************************************************************************)
\* round(count / total * 100, 2), in hundredths of a percent
Percentage(count, total) == (2 * count * 10000 + total) \div (2 * total)

\* func.count(Article.id) of the join Category.articles, grouped by category
JoinCount(assoc, c) == Cardinality({p \in assoc : p[2] = c})

\* the rows of the grouped join: a category without article has no row
DistributionRows(n, assoc) ==
    {[category |-> c, count |-> JoinCount(assoc, c),
      percentage |-> Percentage(JoinCount(assoc, c), n)] :
        c \in {k \in CategoryNames : JoinCount(assoc, k) > 0}}

\* order_by(desc("count")): the rows in an order of descending count
Descending(rows) ==
    {q \in [1..Cardinality(rows) -> rows] :
        /\ \A i, j \in DOMAIN q : i # j => q[i] # q[j]
        /\ \A i, j \in DOMAIN q : i < j => q[i].count >= q[j].count}

\* get_category_distribution() on n articles with associations assoc
RepositoryDistribution(n, assoc) ==
    IF n = 0 THEN {<<>>} ELSE Descending(DistributionRows(n, assoc))

RepositoryDistributionCall(n, assoc) ==
    /\ call = NoCall
    /\ \E q \in RepositoryDistribution(n, assoc) :
          call' = [fn |-> "category_distribution", by |-> "repository",
                   arg |-> [articles |-> n, assoc |-> assoc],
                   total |-> n,
                   out |-> q]
    /\ UNCHANGED notCallVars

\* the service's generator
MockCategories == 10
MockTotal == 1000

RECURSIVE MockRemaining(_)
\* remaining after the categories of index below i
MockRemaining(i) ==
    IF i = 0 THEN MockTotal
    ELSE MockRemaining(i - 1) - (MockTotal \div (i + 1))

\* the count of the category of index i (from 0)
MockCount(i) ==
    IF i = MockCategories - 1 THEN MockRemaining(i) ELSE MockTotal \div (i + 2)

ServiceDistribution(period) ==
    [k \in 1..MockCategories |->
        [category |-> k, count |-> MockCount(k - 1),
         percentage |-> Percentage(MockCount(k - 1), MockTotal)]]

ServiceDistributionCall(period) ==
    /\ call = NoCall
    /\ call' = [fn |-> "category_distribution", by |-> "service",
                arg |-> [period |-> period],
                total |-> MockTotal,
                out |-> ServiceDistribution(period)]
    /\ UNCHANGED notCallVars

\* the caller has taken the result
ReturnCall ==
    /\ call # NoCall
    /\ call' = NoCall
    /\ UNCHANGED notCallVars

NextCall ==
    \/ ReturnCall
    \/ /\ call = NoCall
       \* SourceConfig.category: Optional[str]
       /\ \E raw \in RawArticles, c \in {None, Str(""), Str("news")} :
             NormalizeCall(raw, c)
    \/ /\ call = NoCall
       /\ \E rows \in Stores, id \in 1..MaxArticles, enabled, exact, fuzzy, queryOk \in BOOLEAN :
             CheckDuplicateCall(rows, id, enabled, exact, fuzzy, queryOk)
    \/ /\ call = NoCall
       /\ \E a \in ClassifierArticles, enabled, override \in BOOLEAN, c \in ClassifyArticle :
             ClassifierCall(a, enabled, override, c)
    \/ /\ call = NoCall
       \* the article_categories association table over n stored articles
       /\ \E n \in 0..MaxArticles : \E assoc \in SUBSET ((1..n) \X CategoryNames) :
             RepositoryDistributionCall(n, assoc)
    \/ /\ call = NoCall
       /\ \E period \in {"day", "week", "month", "year"} :
             ServiceDistributionCall(period)

SpecCall == InitApi /\ [][NextCall]_vars


(***************************************************************************)
(* Control flow of ProcessorApp._processing_loop: which statement the loop *)
(* is at, and where an exception raised there takes it                     *)
(***************************************************************************)
LoopFrame ==
    UNCHANGED <<schedVars, apiVars, procVars, call, reproc, direct, goc>>

\* Mutation of ArticleExcept: the exception leaves the loop.
ArticleExceptEscapes == "exited"

\* "except Exception" around the body of the for loop
ArticleExcept == "handler"

\* while self.running: a cycle begins, or the loop ends
ProcLoopTop ==
    /\ ploop.pc = "top"
    /\ ploop' = IF ploop.running
                THEN [ploop EXCEPT !.pc = "fetch", !.failed = FALSE,
                                   !.survived = ploop.failed]
                ELSE [ploop EXCEPT !.pc = "exited"]
    /\ LoopFrame

\* _get_unprocessed_articles: n articles, or [] after an exception it logs
ProcLoopFetch(n, ok) ==
    /\ ploop.pc = "fetch"
    /\ ploop' = IF ok /\ n > 0
                THEN [ploop EXCEPT !.pc = "check", !.len = n, !.i = 1]
                ELSE [ploop EXCEPT !.pc = "sleep", !.len = 0, !.i = 0,
                                   !.failed = ~ok]
    /\ LoopFrame

\* continue / the end of the for body
NextArticle(l) ==
    IF l.i < l.len THEN [l EXCEPT !.pc = "check", !.i = @ + 1]
    ELSE [l EXCEPT !.pc = "sleep"]

\* one awaited statement of the for body: on success the loop moves to pc
\* next, on an exception to the handler of the for body
After(ok, next) ==
    IF ok THEN [ploop EXCEPT !.pc = next]
    ELSE [ploop EXCEPT !.pc = ArticleExcept, !.failed = TRUE]

\* check_duplicate
ProcLoopCheck(dup, ok) ==
    /\ ploop.pc = "check"
    /\ ploop' = After(ok, IF dup THEN "dup_update" ELSE "pipeline")
    /\ LoopFrame

\* update_article of a duplicate
ProcLoopDupUpdate(ok) ==
    /\ ploop.pc = "dup_update"
    /\ ploop' = After(ok, "dup_log")
    /\ LoopFrame

\* _process_article
ProcLoopPipeline(ok) ==
    /\ ploop.pc = "pipeline"
    /\ ploop' = After(ok, "update")
    /\ LoopFrame

\* update_article
ProcLoopUpdate(ok) ==
    /\ ploop.pc = "update"
    /\ ploop' = After(ok, "index")
    /\ LoopFrame

\* index_article
ProcLoopIndex(ok) ==
    /\ ploop.pc = "index"
    /\ ploop' = After(ok, "log")
    /\ LoopFrame

\* _log_processing catches what create_process_log raises
ProcLoopLog(ok) ==
    /\ ploop.pc \in {"dup_log", "log"}
    /\ ploop' = [NextArticle(ploop) EXCEPT !.failed = ploop.failed \/ ~ok]
    /\ LoopFrame

\* the handler of the for body: it logs; an exception raised in it reaches
\* the handler of the while body
ProcLoopHandler(ok) ==
    /\ ploop.pc = "handler"
    /\ ploop' = IF ok THEN NextArticle(ploop)
                \* "except Exception" around the body of the while loop
                ELSE [ploop EXCEPT !.pc = "sleep60"]
    /\ LoopFrame

\* asyncio.sleep(processing_interval), asyncio.sleep(60)
ProcLoopSleep ==
    /\ ploop.pc \in {"sleep", "sleep60"}
    /\ ploop' = [ploop EXCEPT !.pc = "top", !.len = 0, !.i = 0]
    /\ LoopFrame

\* ProcessorApp.stop
ProcLoopStop ==
    /\ ploop.running
    /\ ploop' = [ploop EXCEPT !.running = FALSE]
    /\ LoopFrame

\* the steps of the loop itself
ProcLoopStep ==
    \/ ProcLoopTop
    \/ \E n \in 0..batch_size, ok \in BOOLEAN : ProcLoopFetch(n, ok)
    \/ \E dup, ok \in BOOLEAN : ProcLoopCheck(dup, ok)
    \/ \E ok \in BOOLEAN : ProcLoopDupUpdate(ok)
    \/ \E ok \in BOOLEAN : ProcLoopPipeline(ok)
    \/ \E ok \in BOOLEAN : ProcLoopUpdate(ok)
    \/ \E ok \in BOOLEAN : ProcLoopIndex(ok)
    \/ \E ok \in BOOLEAN : ProcLoopLog(ok)
    \/ \E ok \in BOOLEAN : ProcLoopHandler(ok)
    \/ ProcLoopSleep

NextLoop == ProcLoopStep \/ ProcLoopStop

\* every awaited call returns or raises, and the event loop resumes the task
SpecLoop == InitProc /\ [][NextLoop]_vars /\ WF_vars(ProcLoopStep)

Tick ==
    /\ now < MaxTime
    /\ now' = now + 1
    /\ UNCHANGED <<running, loops, sources, source_instances, last_crawl_time,
                   next_crawl_time, running_tasks, orphans, semaphore,
                   sources_file, on_error_callback, updating, event>>
    /\ UNCHANGED notSchedVars

NextSched ==
    \/ Tick
    \/ Start
    \/ Stop
    \/ LoopIter
    \/ LoopExit
    \/ \E s \in SourceIds : TaskAcquire(s)
    \/ \E s \in SourceIds, o \in {"ok", "fail"} : TaskFetchDone(s, o)
    \/ \E s \in SourceIds : TaskCancelled(s)
    \/ \E k \in OrphanKinds : OrphanCancelled(k)
    \/ \E c \in Configs : AddSource(c)
    \/ \E id \in SourceIds : RemoveSource(id)
    \/ \E c \in Configs : UpdateSource(c)
    \/ UpdateResume

SpecSched == Init /\ [][NextSched]_vars

(***************************************************************************)
(* crawl_source called directly (crawler main, --source), next to          *)
(* add_source and remove_source                                            *)
(***************************************************************************)
\* crawl_source(id) up to its first suspension: the id is looked up, the
\* instance is taken and source.process() is awaited.  No semaphore and no
\* entry of running_tasks are involved.
DirectCrawlStart(id) ==
    /\ direct = NoDirect
    /\ id \in DOMAIN source_instances
    /\ direct' = [st |-> "fetching", id |-> id]
    /\ UNCHANGED <<schedVars, apiVars, procVars, call, reproc, ploop, goc>>

\* source.process() returns to the direct call: last_crawl_time[id] is
\* assigned, then the interval is read.
DirectCrawlDone ==
    /\ direct.st = "fetching"
    /\ last_crawl_time' = DictPut(last_crawl_time, direct.id, now)
    /\ IF ConfigHasInterval
       THEN next_crawl_time' =
               DictPut(next_crawl_time, direct.id, now + default_interval)
       ELSE UNCHANGED next_crawl_time
    /\ direct' = NoDirect
    /\ UNCHANGED <<now, running, loops, sources, source_instances,
                   running_tasks, orphans, semaphore, sources_file,
                   on_error_callback, updating, event>>
    /\ UNCHANGED <<apiVars, procVars, call, reproc, ploop, goc>>

NextDirect ==
    \/ Tick
    \/ \E c \in Configs : AddSource(c)
    \/ \E id \in SourceIds : RemoveSource(id)
    \/ \E id \in SourceIds : DirectCrawlStart(id)
    \/ DirectCrawlDone

SpecDirect == Init /\ [][NextDirect]_vars


(***************************************************************************)
(* End to end: one seeded source, its scheduled crawls, and the processing *)
(* cycles on what the crawls stored                                        *)
(***************************************************************************)

NextE2E ==
    \/ \E c \in {c \in Configs : c.id = "s1"} : AddSource(c)
    \/ Start
    \/ LoopIter
    \/ \E s \in SourceIds : TaskAcquire(s)
    \/ \E s \in SourceIds, o \in {"ok", "fail"} : TaskFetchDone(s, o)
    \/ \E pub \in PublishedDates : Ingest("Storm", pub)
    \/ FetchBatch
    \/ IdleCycle
    \/ \E i \in 1..batch_size : Check(i, TRUE)
    \/ \E i \in 1..batch_size : Persist(i, TRUE, TRUE)
    \/ EndBatch

SpecE2E == InitProc /\ [][NextE2E]_vars

(***************************************************************************)
(* Properties of the crawler scheduler                                     *)
(***************************************************************************)
\* Unfinished crawl tasks of source s: the one the registry holds, and the
\* cancelled ones it has forgotten.
LiveTasksFor(s) ==
    (IF s \in DOMAIN running_tasks /\ Live(running_tasks[s]) THEN 1 ELSE 0)
    + orphans[<<s, "waiting">>] + orphans[<<s, "fetching">>]

\* Tasks inside "async with self.semaphore".
Fetching ==
    Cardinality({s \in DOMAIN running_tasks : running_tasks[s].st = "fetching"})
    + SumOver(orphans, SourceIds \X {"fetching"})

\* C1: the scheduling loop never has two unfinished crawl tasks for the
\* same source id at the same time.
C1_SingleFlight == \A s \in SourceIds : LiveTasksFor(s) <= 1

\* C2: at every moment the number of crawl tasks holding the semaphore is
\* at most max_concurrent_tasks, and the permit count matches it.
C2_BoundedFetching ==
    /\ Fetching <= max_concurrent_tasks
    /\ semaphore = max_concurrent_tasks - Fetching

\* C2 witness: every permit is taken while another due source's task waits.
C2_Witness ==
    /\ semaphore = 0
    /\ Fetching = max_concurrent_tasks
    /\ \E s \in DOMAIN running_tasks :
          running_tasks[s].st = "waiting" /\ ~running_tasks[s].cancel

\* The interval a source is configured with.
ConfiguredInterval(c) == c.update_interval

\* C6: after a successful crawl at time now, last_crawl_time = now and
\* next_crawl_time lies within now + max(I, min_interval) * (1 -/+ jitter).
C6_NextCrawlAfterSuccess ==
    [][\A s \in SourceIds :
         TaskFetchDone(s, "ok") =>
           LET I == Max(ConfiguredInterval(running_tasks[s].cfg), min_interval)
           IN /\ last_crawl_time'[s] = now
              /\ s \in DOMAIN next_crawl_time'
              /\ next_crawl_time'[s] >= now + (I * (1000 - JitterPermille)) \div 1000
              /\ next_crawl_time'[s] <= now + (I * (1000 + JitterPermille)) \div 1000
      ]_vars

\* C7: after a failed crawl the source is due again no later than
\* min(configured interval, 600) seconds after the failure.
C7_RetryWithinCap ==
    [][\A s \in SourceIds :
         TaskFetchDone(s, "fail") =>
           /\ s \in DOMAIN next_crawl_time'
           /\ next_crawl_time'[s] <=
                now + Min(ConfiguredInterval(running_tasks[s].cfg), RetryCap)
      ]_vars

\* C7 witness: a crawl whose fetch failed has ended and its source is due.
C7_Witness ==
    /\ event.kind = "crawl"
    /\ event.outcome = "fail"
    /\ event.id \in DOMAIN next_crawl_time
    /\ next_crawl_time[event.id] <= now + RetryCap
    /\ ConfiguredInterval(source_instances[event.id]) > RetryCap

\* C8: a failed fetch makes the scheduler invoke the error callback with
\* the source id and reschedule the source with the retry interval.
C8_FailureRetryInterval ==
    [][\A s \in SourceIds :
         TaskFetchDone(s, "fail") =>
           /\ event' = Crawled(s, "fail", FALSE, TRUE)
           /\ s \in DOMAIN next_crawl_time'
           /\ next_crawl_time'[s] =
                now + Min(ConfiguredInterval(running_tasks[s].cfg), RetryCap)
      ]_vars

(***************************************************************************)
(* Properties of the API middlewares                                       *)
(***************************************************************************)
\* number of entries of lst inside the window (t - time_window, t]
RECURSIVE CountIn(_, _)
CountIn(lst, t) ==
    IF lst = <<>> THEN 0
    ELSE (IF t - WindowTicks < Head(lst) /\ Head(lst) <= t THEN 1 ELSE 0)
         + CountIn(Tail(lst), t)

\* number of occurrences of ts in lst
Occurrences(lst, ts) == Cardinality({i \in 1..Len(lst) : lst[i] = ts})

\* C3: for every client IP and every instant t, at most rate_limit admitted
\* requests of that IP have timestamps in (t - time_window, t], whatever
\* calls of is_rate_limited and cleanup passes have run; and the limiter's
\* list holds only admitted requests: a rejected request is not recorded.
C3_SlidingWindow ==
    \A ip \in Ips :
        /\ \A t \in 0..api_now : CountIn(admitted[ip], t) <= rate_limit
        /\ ip \in DOMAIN requests =>
              \A t \in 0..api_now :
                  Occurrences(requests[ip], t) <= Occurrences(admitted[ip], t)

\* An IP was rejected with its window full, and was admitted again once the
\* window had slid past its old requests.
C3_Witness ==
    \E ip \in Ips :
        /\ CountIn(admitted[ip], WindowTicks - 1) = rate_limit
        /\ Len(admitted[ip]) > rate_limit
        /\ resp.mw = "rate" /\ resp.ip = ip /\ resp.status = 429

\* requests of the answered IP admitted in the window before the answered one
PriorInWindow ==
    CountIn(admitted[resp.ip], resp.time) - (IF resp.passed THEN 1 ELSE 0)

\* C4: a request to a limited path that finds fewer than rate_limit admitted
\* requests of its IP in the window is passed on; one that finds rate_limit
\* of them is answered 429 with a Retry-After of at least 1 second.
C4_LimitBoundary ==
    (resp.mw = "rate" /\ resp.path \notin RateExcludePaths) =>
        IF PriorInWindow < rate_limit
        THEN resp.status = 200 /\ resp.passed
        ELSE resp.status = 429 /\ ~resp.passed /\ resp.retry >= 1

\* A rejection whose remaining wait is under one second, so that Retry-After
\* is the floor value.
C4_Witness ==
    /\ resp.mw = "rate" /\ resp.status = 429 /\ resp.retry = 1
    /\ PriorInWindow = rate_limit
    /\ \E i \in 1..Len(admitted[resp.ip]) :
          /\ Keep(resp.time, admitted[resp.ip][i])
          /\ WindowTicks - (resp.time - admitted[resp.ip][i]) < TicksPerSecond


\* C5: on a path outside the bypass list, a request is passed downstream
\* only with a valid bearer token, whose claims are attached; every other
\* request is answered 401 with WWW-Authenticate: Bearer and not passed on.
C5_AuthFailure401 ==
    (resp.mw = "auth" /\ resp.path \notin AuthBypassPaths) =>
        \* the header is "Bearer <token>" with a token jwt.decode accepts
        IF /\ resp.header.given /\ resp.header.nonempty
           /\ Len(resp.header.words) = 2
           /\ Lower(resp.header.words[1]) = "bearer"
           /\ JwtDecodes(resp.header.words[2], resp.time)
        THEN resp.passed /\ resp.status = 200 /\ resp.user = resp.header.words[2]
        ELSE resp.status = 401 /\ resp.www /\ ~resp.passed

(***************************************************************************)
(* Properties of the processor                                             *)
(***************************************************************************)
\* row c shows the result persisted for a batch position with verdict v
Reflects(c, v) ==
    IF v.dup THEN c.is_duplicate /\ c.duplicate_of = v.of
    ELSE c.processed

\* C9 as stated: when the duplicate check of a batch position has run, the
\* result of every earlier position has been persisted, and the candidates
\* the check read contain every earlier article of the batch, showing that
\* persisted result.
C9_EarlierAlwaysCandidates ==
    last > 0 =>
        \A j \in 1..(last - 1) :
            /\ persisted[j]
            /\ batch[j] \in DOMAIN cands
            /\ Reflects(cands[batch[j]], verdict[j])

\* C9 amended: when the duplicate check of a batch position has run, the
\* handling of every earlier position has ended (its result persisted or the
\* failed write logged), and every earlier article of the batch that the
\* candidate query returned shows its persisted result.
C9_SequentialBatch ==
    last > 0 =>
        \A j \in 1..(last - 1) :
            /\ stage[j] = "done"
            /\ (persisted[j] /\ batch[j] \in DOMAIN cands) =>
                  Reflects(cands[batch[j]], verdict[j])

\* The second article of a batch was checked against candidates holding the
\* first one, already flagged duplicate and persisted.
C9_Witness ==
    /\ last = 2
    /\ persisted[1] /\ verdict[1].dup
    /\ batch[1] \in DOMAIN cands
    /\ cands[batch[1]].is_duplicate

\* C10: every article flagged is_duplicate has duplicate_of referencing an
\* earlier stored article that is not itself flagged duplicate; so no two
\* articles are flagged duplicates of each other.
C10_DuplicateOfCanonical ==
    \A a \in Ids :
        store[a].is_duplicate =>
            /\ store[a].duplicate_of \in Ids
            /\ store[a].duplicate_of < a
            /\ ~store[store[a].duplicate_of].is_duplicate

C12_IndexAfterUpdate ==
    /\ \A i \in DOMAIN batch :
          stage[i] = "done" =>
              /\ indexed[i] => persisted[i] /\ store[batch[i]].processed
              /\ ~persisted[i] => ~indexed[i]
    /\ \A a \in index : a \in Ids /\ store[a].processed

\* An update failed and its article stayed out of the index, while another
\* article of the batch was updated and then indexed.
C12_Witness ==
    \E i, j \in DOMAIN batch :
        /\ stage[i] = "done" /\ ~verdict[i].dup /\ piped[i] /\ ~persisted[i]
        /\ batch[i] \notin index
        /\ stage[j] = "done" /\ persisted[j] /\ indexed[j] /\ batch[j] \in index

(***************************************************************************)
(* End-to-end property                                                     *)
(***************************************************************************)
\* C13: once a scheduled crawl of the seeded source has fetched its article
\* and a processing cycle begun after it has ended, the store holds a row
\* of that article with processed = true, mirrored in the search index under
\* the same title (language and sentiment are fields of that same row).
C13_EndToEnd ==
    (event.kind = "crawl" /\ event.outcome = "ok" /\ poll = "done") =>
        \E a \in Ids :
            /\ store[a].title = FeedTitle
            /\ store[a].processed
            /\ a \in index

(***************************************************************************)
(* Properties of the stateless operations                                  *)
(***************************************************************************)
\* C14: normalize_article returns None for a raw article whose title or url
\* is missing or empty; for one with both it returns an article, and when
\* the source has a category the result lists that category exactly once,
\* whether or not the raw article listed it.
C14_NormalizeArticle ==
    call.fn = "normalize_article" =>
        IF ~Truthy(call.arg.raw.title) \/ ~Truthy(call.arg.raw.url)
        THEN call.out = <<>>
        ELSE /\ call.out # <<>>
             /\ Truthy(call.arg.category) =>
                   Count(call.out[1].categories, call.arg.category[1]) = 1

\* the stored articles other than the incoming one whose title equals its
\* title up to letter case
SameTitle(rows, id) ==
    {a \in DOMAIN rows \ {id} : LowerTitle(rows[a].title) = LowerTitle(rows[id].title)}

C16_DefaultCategoryNoText ==
    (/\ call.fn = "classifier"
     /\ call.arg.enabled
     /\ ~Truthy(call.arg.article.content)
     /\ ~Truthy(call.arg.article.title)) =>
        /\ call.out.categories = <<default_category>>
        /\ call.out.confidence = <<0>>

RECURSIVE SumCount(_)
SumCount(q) == IF q = <<>> THEN 0 ELSE Head(q).count + SumCount(Tail(q))

\* C17: the counts of the categories the category-distribution analytics
\* return add up to the total article count the percentages are computed
\* from, for the repository query and for the service's generator.
C17_CountsSumToTotal ==
    call.fn = "category_distribution" => SumCount(call.out) = call.total

(***************************************************************************)
(* Dynamic source management and stop                                      *)
(***************************************************************************)
\* C18: add_source with an id the scheduler already has returns False and
\* leaves the fetcher instance, the last and next crawl times, the running
\* task and the source list as they are.
C18_AddExistingIsNoOp ==
    [][\A c \in Configs :
         (c.id \in DOMAIN source_instances /\ AddSource(c)) =>
            /\ event' = Returned("add", c.id, FALSE)
            /\ UNCHANGED <<source_instances, last_crawl_time, next_crawl_time,
                           running_tasks, sources>>
      ]_vars

\* an add of an id whose crawl is in flight was refused
C18_Witness ==
    /\ ~sources_file
    /\ event.kind = "add" /\ ~event.ok
    /\ event.id \in DOMAIN running_tasks
    /\ Live(running_tasks[event.id])
    /\ next_crawl_time[event.id] # now

\* C19: once remove_source(id) on an existing source has run, the task of id
\* that was in flight is cancelled and out of the registry, id has no
\* instance, no crawl time, no task entry and no entry in the source list,
\* and as long as id is not added again no task is started for it.
C19_RemovedSourceIsGone ==
    [][\A id \in SourceIds :
         /\ (/\ id \in DOMAIN source_instances
             /\ event' = Returned("remove", id, ~sources_file)
             /\ RemoveSource(id)) =>
               /\ id \notin DOMAIN source_instances'
               /\ id \notin DOMAIN last_crawl_time'
               /\ id \notin DOMAIN next_crawl_time'
               /\ id \notin DOMAIN running_tasks'
               /\ \A i \in DOMAIN sources' : sources'[i].id # id
               /\ (id \in DOMAIN running_tasks /\ Live(running_tasks[id])) =>
                     orphans'[<<id, running_tasks[id].st>>]
                         = orphans[<<id, running_tasks[id].st>>] + 1
         /\ (id \notin DOMAIN source_instances /\ id \notin DOMAIN source_instances') =>
               /\ id \notin DOMAIN running_tasks'
               /\ id \notin DOMAIN next_crawl_time'
      ]_vars

\* a source was removed while its crawl was in flight; the scheduler runs on
\* and the removed id has no task but the cancelled one
C19_Witness ==
    /\ event.kind = "remove"
    /\ event.id \notin DOMAIN source_instances
    /\ LiveTasksFor(event.id) = 1
    /\ running
    /\ now > 0

\* C20: stop on a running scheduler requests the cancellation of every
\* unfinished crawl task and returns without waiting for them; while the
\* scheduler is not running no task is started; stop on a scheduler that is
\* not running changes nothing.
C20_StopCancelsAndHalts ==
    [][/\ Stop =>
            IF running
            THEN /\ ~running'
                 /\ \A s \in DOMAIN running_tasks :
                       Live(running_tasks[s]) =>
                          /\ s \in DOMAIN running_tasks'
                          /\ running_tasks'[s].cancel
                          /\ running_tasks'[s].st = running_tasks[s].st
            ELSE UNCHANGED vars
       /\ ~running => DOMAIN running_tasks' \subseteq DOMAIN running_tasks
      ]_vars

\* stopped with a crawl in flight: the task is still there, cancellation
\* requested
C20_Witness ==
    /\ ~running
    /\ \E s \in DOMAIN running_tasks :
          /\ running_tasks[s].st = "fetching"
          /\ running_tasks[s].cancel
          /\ s \in DOMAIN source_instances

(***************************************************************************)
(* The --reprocess-all command                                             *)
(***************************************************************************)
\* C21: the update --reprocess-all makes on an article leaves it with
\* processed = false, no processed_at, is_duplicate = false and no
\* duplicate_of, touches neither the pipeline nor the index, and makes the
\* article one the next poll cycle selects as unprocessed.
C21_ReprocessAllResets ==
    [][ReprocessReset(TRUE) =>
          LET a == reproc.i
          IN /\ ~store'[a].processed
             /\ store'[a].processed_at = Absent
             /\ ~store'[a].is_duplicate
             /\ store'[a].duplicate_of = Absent
             /\ UNCHANGED <<piped, indexed, index>>
             /\ a \in Unprocessed'
      ]_vars

(***************************************************************************)
(* The processing loop survives failures                                   *)
(***************************************************************************)
\* C22: while the processor is running, a failure while fetching the batch
\* or while processing or logging an article does not end the polling loop:
\* after it the loop begins another poll cycle.
C22_LoopSurvivesFailures ==
    (ploop.failed /\ ploop.running) ~> (~ploop.failed \/ ~ploop.running)

\* a cycle has begun after a cycle in which a failure occurred
C22_Witness ==
    /\ ploop.survived
    /\ ploop.pc = "fetch"
    /\ ploop.running

(***************************************************************************)
(* Scheduling progress and bookkeeping                                     *)
(***************************************************************************)
\* C23: a due source of a running scheduler is eventually fetched, and once
\* that fetch has ended its next_crawl_time lies in the future.  The second
\* half, on the step that ends a scheduled fetch:
C23_DueFetchedThenFuture ==
    [][\A s \in SourceIds :
         (/\ event'.kind = "crawl"
          /\ \E o \in {"ok", "fail"} : TaskFetchDone(s, o)) =>
            /\ s \in DOMAIN next_crawl_time'
            /\ next_crawl_time'[s] > now
      ]_vars

\* C24: add_source and remove_source return true exactly when they changed
\* the in-memory source set: on every call that returns false, a failed
\* rewrite of the sources file included, the source list, the fetcher
\* instances, the crawl times and the running tasks are as before the call.
C24_FalseReturnLeavesState ==
    [][\A id \in SourceIds :
         (/\ event' \in {Returned("add", id, FALSE),
                         Returned("remove", id, FALSE)}
          /\ \/ RemoveSource(id)
             \/ \E c \in Configs : c.id = id /\ AddSource(c)) =>
            UNCHANGED <<sources, source_instances, last_crawl_time,
                        next_crawl_time, running_tasks>>
      ]_vars

\* C25: the ids with a next_crawl_time entry are the ids with a fetcher
\* instance, and no crawl-time bookkeeping (last or next crawl time) exists
\* for an id that has no instance: a crawl that ends after remove_source(id)
\* does not bring it back.
C25_CrawlTimesFollowInstances ==
    /\ DOMAIN next_crawl_time = DOMAIN source_instances
    /\ \A id \in SourceIds \ DOMAIN source_instances :
          id \notin DOMAIN last_crawl_time

\* C26: after start has loaded the k sources of the configuration (here the
\* built-in defaults, which set no id) into a scheduler that held none, the
\* scheduler holds k sources, k fetcher instances and k next_crawl_time
\* entries; get_source_status reports len(source_instances) as total_sources.
C26_OneInstancePerLoadedSource ==
    [][(/\ ~running
        /\ source_instances = EmptyDict
        /\ Start) =>
          LET k == Len(DefaultSources)
          IN /\ Len(sources') = k
             /\ Cardinality(DOMAIN source_instances') = k
             /\ Cardinality(DOMAIN next_crawl_time') = k
      ]_vars

(***************************************************************************)
(* Progress of the processor                                               *)
(***************************************************************************)
\* C27: an article that a processing cycle has handled, as processed or as
\* duplicate, is not selected by the unprocessed-articles query of any later
\* cycle (so duplicates cannot keep filling the batches).  For the articles
\* handled as duplicates:
C27_HandledNeverSelectedAgain ==
    [][(batch = <<>> /\ FetchBatch) =>
          \A i \in DOMAIN batch' :
             /\ ~store[batch'[i]].is_duplicate
             /\ ~store[batch'[i]].processed
      ]_vars

(***************************************************************************)
(* Retry-After of the rate limiter                                         *)
(***************************************************************************)
\* C28: when the rate limiter has rejected a request of an IP with
\* Retry-After = r, the request that IP makes r seconds after the rejected
\* one, with no request in between, is admitted.
C28_RetryAfterIsEnough ==
    [][\A ip \in Ips :
         (/\ resp.mw = "rate"
          /\ resp.status = 429
          /\ resp.ip = ip
          /\ api_now = resp.time + resp.retry * TicksPerSecond
          /\ \E path \in Paths \ RateExcludePaths : RateLimitCall(ip, path)) =>
            resp'.status = 200
      ]_vars

(***************************************************************************)
(* Concurrent get_or_create                                                *)
(***************************************************************************)
\* C29: whatever the interleaving of get_or_create calls made through
\* different repository instances, there is at most one Category row per
\* name, one Tag row per name and one Entity row per (name, type), and no
\* call raises.
C29_OneRowPerName ==
    /\ \A tk \in Tables \X Names : goc.rows[tk] <= 1
    /\ \A r \in Repositories : goc.calls[r].pc # "raised"

(***************************************************************************)
(* Counts of the service's category distribution                           *)
(***************************************************************************)
\* C30: every count the service-layer category distribution returns is a
\* non-negative integer not above the notional total, the count of the last
\* category, which takes the remainder, included.
C30_CountsWithinTotal ==
    (call.fn = "category_distribution" /\ call.by = "service") =>
       \A k \in DOMAIN call.out :
          /\ call.out[k].count \in Nat
          /\ call.out[k].count <= call.total

====
